---------------------------- MODULE Spec2Model ----------------------------
(***************************************************************************)
(* Model of the RAG chat service of the SDLC platform:                     *)
(* backend/app/services/rag_chat_service.py (RAGChatService) and its HTTP  *)
(* entry point backend/app/routers/chat.py, and of the phase updates of    *)
(* backend/app/routers/phases.py.                                          *)
(*                                                                         *)
(* Text is modelled as a sequence of one-character strings, so that the    *)
(* service's substring tests (`word in query_lower`), lower-casing and     *)
(* whitespace splitting are computed as Python computes them.              *)
(***************************************************************************)
EXTENDS Integers, Sequences, FiniteSets, TLC

VARIABLES
    vector_store,    \* self.vector_store: "ok" or "none" (construction failed)
    use_real_ai,     \* self.use_real_ai
    projects,        \* table projects: id -> record
    phases,          \* table phases: id -> record
    index,           \* the Embedding Index: sequence of stored entries
    pc,              \* position of the request in process_chat_query
    req,             \* the arguments of the request being served
    intent,          \* local `intent`
    sql_context,     \* local `sql_context` of the handler
    vector_context,  \* local `vector_context` of the handler
    response,        \* local `response` (what the handler returned or raised)
    http,            \* what chat_query answered: status and body
    nreq,            \* number of requests received so far
    faults,          \* which calls of this request raised: database, search, store
    replies,         \* the status codes chat_query has answered, in order
    other            \* the frame of a second call in flight, or None

vars == <<vector_store, use_real_ai, projects, phases, index, pc, req, intent,
          sql_context, vector_context, response, http, nreq, faults, replies, other>>

-----------------------------------------------------------------------------
(* Bounds of the model *)

\* number of vocabulary phrases a classified query is made of, at most
MaxWords == 2
\* number of times the request is served
MaxRequests == 2
\* number of entries the Embedding Index holds before the first request
SeedEntries == 6
\* number of projects the Artifact Store holds, at most
MaxProjects == 6
\* number of calls of update_phase
MaxUpdates == 2

-----------------------------------------------------------------------------
(* Python values *)

\* Python's None; dict-valued and Optional values are records
None == [none |-> TRUE]
IsNone(v) == DOMAIN v = {"none"}
\* Optional[int] = None, for project_id and phase_id
NoneId == -1
\* bool(x) of an Optional[int]: None and 0 are falsy
Truthy(id) == id # NoneId /\ id # 0
\* the empty dict {}
EmptyDict == [k \in {} |-> 0]
\* d.get(key, default)
Get(d, key, default) == IF key \in DOMAIN d THEN d[key] ELSE default
\* an exception leaving a function
Raise(exc) == [raised |-> exc]
IsRaise(v) == "raised" \in DOMAIN v

-----------------------------------------------------------------------------
(* Text *)

UpperToLower ==
    [c \in {"A","B","C","D","E","F","G","H","I","J","K","L","M",
            "N","O","P","Q","R","S","T","U","V","W","X","Y","Z"} |->
        CASE c = "A" -> "a" [] c = "B" -> "b" [] c = "C" -> "c" [] c = "D" -> "d"
          [] c = "E" -> "e" [] c = "F" -> "f" [] c = "G" -> "g" [] c = "H" -> "h"
          [] c = "I" -> "i" [] c = "J" -> "j" [] c = "K" -> "k" [] c = "L" -> "l"
          [] c = "M" -> "m" [] c = "N" -> "n" [] c = "O" -> "o" [] c = "P" -> "p"
          [] c = "Q" -> "q" [] c = "R" -> "r" [] c = "S" -> "s" [] c = "T" -> "t"
          [] c = "U" -> "u" [] c = "V" -> "v" [] c = "W" -> "w" [] c = "X" -> "x"
          [] c = "Y" -> "y" [] c = "Z" -> "z"]

\* str.lower()
Lower(s) ==
    [i \in 1..Len(s) |-> IF s[i] \in DOMAIN UpperToLower THEN UpperToLower[s[i]] ELSE s[i]]

\* `needle in hay` for two str
Contains(hay, needle) ==
    \E i \in 0..(Len(hay) - Len(needle)) :
        \A j \in 1..Len(needle) : hay[i + j] = needle[j]

\* any(word in text for word in words)
AnyIn(words, text) == \E word \in words : Contains(text, word)

Whitespace == {" ", "\t", "\n"}

\* len(s.split()): the number of maximal runs of non-whitespace
SplitLen(s) ==
    Cardinality({i \in 1..Len(s) :
        /\ s[i] \notin Whitespace
        /\ (i = 1 \/ s[i - 1] \in Whitespace)})

-----------------------------------------------------------------------------
(* Intent Classifier: the keyword lists of _detect_query_intent *)

FollowUpWords ==
    { <<"y","e","s">>  \* 'yes'
    , <<"s","u","r","e">>  \* 'sure'
    , <<"o","k">>  \* 'ok'
    , <<"o","k","a","y">>  \* 'okay'
    , <<"t","e","l","l"," ","m","e"," ","m","o","r","e">>  \* 'tell me more'
    , <<"c","o","n","t","i","n","u","e">>  \* 'continue'
    , <<"g","o"," ","a","h","e","a","d">>  \* 'go ahead'
    }

FollowUpPhaseWords ==
    { <<"p","h","a","s","e"," ","2">>  \* 'phase 2'
    , <<"p","h","a","s","e"," ","3">>  \* 'phase 3'
    , <<"p","h","a","s","e"," ","4">>  \* 'phase 4'
    , <<"p","h","a","s","e"," ","5">>  \* 'phase 5'
    , <<"p","h","a","s","e"," ","6">>  \* 'phase 6'
    }

ApprovalWords ==
    { <<"a","p","p","r","o","v","a","l">>  \* 'approval'
    , <<"p","e","n","d","i","n","g">>  \* 'pending'
    , <<"w","a","i","t","i","n","g">>  \* 'waiting'
    , <<"n","e","e","d"," ","t","o"," ","a","p","p","r","o","v","e">>  \* 'need to approve'
    , <<"a","p","p","r","o","v","a","l","s"," ","a","r","e"," ","p","e","n","d","i","n","g">>  \* 'approvals are pending'
    }

ProjectListWords ==
    { <<"h","o","w"," ","m","a","n","y">>  \* 'how many'
    , <<"c","o","u","n","t">>  \* 'count'
    , <<"l","i","s","t">>  \* 'list'
    , <<"a","l","l"," ","p","r","o","j","e","c","t","s">>  \* 'all projects'
    }

DashboardStatusWords ==
    { <<"s","t","a","t","u","s">>  \* 'status'
    , <<"p","r","o","g","r","e","s","s">>  \* 'progress'
    }

ProjectCreationWords ==
    { <<"c","r","e","a","t","e">>  \* 'create'
    , <<"s","t","a","r","t">>  \* 'start'
    , <<"n","e","w"," ","p","r","o","j","e","c","t">>  \* 'new project'
    , <<"h","o","w"," ","d","o"," ","i"," ","c","r","e","a","t","e">>  \* 'how do i create'
    }

PhaseGuidanceWords ==
    { <<"n","e","x","t"," ","s","t","e","p">>  \* 'next step'
    , <<"w","h","a","t"," ","s","h","o","u","l","d">>  \* 'what should'
    , <<"h","o","w"," ","t","o">>  \* 'how to'
    , <<"g","u","i","d","e">>  \* 'guide'
    }

RequirementWords ==
    { <<"r","e","q","u","i","r","e","m","e","n","t">>  \* 'requirement'
    , <<"f","e","a","t","u","r","e">>  \* 'feature'
    , <<"u","s","e","r"," ","s","t","o","r","y">>  \* 'user story'
    }

RiskWords ==
    { <<"r","i","s","k">>  \* 'risk'
    , <<"i","s","s","u","e">>  \* 'issue'
    , <<"p","r","o","b","l","e","m">>  \* 'problem'
    }

StakeholderWords ==
    { <<"s","t","a","k","e","h","o","l","d","e","r">>  \* 'stakeholder'
    , <<"a","p","p","r","o","v","a","l">>  \* 'approval'
    , <<"w","h","o">>  \* 'who'
    }

ProjectStatusWords ==
    { <<"s","t","a","t","u","s">>  \* 'status'
    , <<"p","r","o","g","r","e","s","s">>  \* 'progress'
    , <<"c","o","m","p","l","e","t","e">>  \* 'complete'
    }

PhaseWord == <<"p","h","a","s","e">>  \* 'phase'

\* the follow-up test made whether or not a history is present
IsFollowUp_AnyHistory(query_lower, conversation_history) ==
    \/ AnyIn(FollowUpWords, query_lower)
    \/ /\ AnyIn(FollowUpPhaseWords, query_lower)
       /\ SplitLen(query_lower) <= 5

\* the follow-up test made when a history is present
IsFollowUp(query_lower, conversation_history) ==
    /\ Len(conversation_history) > 0
    /\ \/ AnyIn(FollowUpWords, query_lower)
       \/ /\ AnyIn(FollowUpPhaseWords, query_lower)
          /\ SplitLen(query_lower) <= 5

\* the dashboard chain with the list test ahead of the approval test
DashboardIntent_ListFirst(query_lower) ==
    IF AnyIn(ProjectListWords, query_lower) THEN "project_list"
    ELSE IF AnyIn(ApprovalWords, query_lower) THEN "approval_query"
    ELSE IF AnyIn(DashboardStatusWords, query_lower) /\ ~Contains(query_lower, PhaseWord)
         THEN "project_status"
    ELSE IF AnyIn(ProjectCreationWords, query_lower) THEN "project_creation"
    ELSE "dashboard_general"

\* the chain of tests of the dashboard context
DashboardIntent(query_lower) ==
    IF AnyIn(ApprovalWords, query_lower) THEN "approval_query"
    ELSE IF AnyIn(ProjectListWords, query_lower) THEN "project_list"
    ELSE IF AnyIn(DashboardStatusWords, query_lower) /\ ~Contains(query_lower, PhaseWord)
         THEN "project_status"
    ELSE IF AnyIn(ProjectCreationWords, query_lower) THEN "project_creation"
    ELSE "dashboard_general"

\* the project chain falling back to the docstring's "general_sdlc"
ProjectIntent_GeneralSdlc(query_lower) ==
    IF AnyIn(PhaseGuidanceWords, query_lower) THEN "phase_guidance"
    ELSE IF AnyIn(RequirementWords, query_lower) THEN "requirement_info"
    ELSE IF AnyIn(RiskWords, query_lower) THEN "risk_analysis"
    ELSE IF AnyIn(StakeholderWords, query_lower) THEN "stakeholder_info"
    ELSE IF AnyIn(ProjectStatusWords, query_lower) THEN "project_status"
    ELSE "general_sdlc"

\* the project chain with the risk test ahead of the requirement test
ProjectIntent_RiskFirst(query_lower) ==
    IF AnyIn(PhaseGuidanceWords, query_lower) THEN "phase_guidance"
    ELSE IF AnyIn(RiskWords, query_lower) THEN "risk_analysis"
    ELSE IF AnyIn(RequirementWords, query_lower) THEN "requirement_info"
    ELSE IF AnyIn(StakeholderWords, query_lower) THEN "stakeholder_info"
    ELSE IF AnyIn(ProjectStatusWords, query_lower) THEN "project_status"
    ELSE "project_general"

\* the chain of tests of the project context
ProjectIntent(query_lower) ==
    IF AnyIn(PhaseGuidanceWords, query_lower) THEN "phase_guidance"
    ELSE IF AnyIn(RequirementWords, query_lower) THEN "requirement_info"
    ELSE IF AnyIn(RiskWords, query_lower) THEN "risk_analysis"
    ELSE IF AnyIn(StakeholderWords, query_lower) THEN "stakeholder_info"
    ELSE IF AnyIn(ProjectStatusWords, query_lower) THEN "project_status"
    ELSE "project_general"

\* the classifier with the follow-up test behind the scope's keyword rules
DetectQueryIntent_ScopeFirst(query, context_type, conversation_history) ==
    LET query_lower == Lower(query)
        scoped == IF context_type = "dashboard" THEN DashboardIntent(query_lower)
                  ELSE ProjectIntent(query_lower)
    IN IF scoped \notin {"dashboard_general", "project_general"} THEN scoped
       ELSE IF IsFollowUp(query_lower, conversation_history) THEN "follow_up"
       ELSE scoped

DetectQueryIntent(query, context_type, conversation_history) ==
    LET query_lower == Lower(query) IN
    IF IsFollowUp(query_lower, conversation_history) THEN "follow_up"
    ELSE IF context_type = "dashboard" THEN DashboardIntent(query_lower)
    ELSE ProjectIntent(query_lower)

-----------------------------------------------------------------------------
(* Requests *)

CreateQuestion == <<"h","o","w"," ","d","o"," ","i"," ","c","r","e","a","t","e"," ","a"," ","p","r","o","j","e","c","t","?">>  \* 'how do i create a project?'
Ellipsis == <<".",".",".">>  \* '...'

\* conversation histories a caller sends
CreateTurn == [role |-> "user", content |-> CreateQuestion]
AssistantTurn == [role |-> "assistant", content |-> Ellipsis]
Histories == { <<>>, <<CreateTurn>>, <<CreateTurn, AssistantTurn>> }

\* Optional[List] = None: not supplied, or a list of turns
HistoryArgs ==
    {[given |-> FALSE, turns |-> <<>>]} \cup {[given |-> TRUE, turns |-> h] : h \in Histories}

\* phrases the classified queries are made of
Vocab ==
    { <<"y","e","s">>  \* 'yes'
    , <<"O","k","a","y">>  \* 'Okay'
    , <<"b","o","o","k">>  \* 'book'
    , <<"t","e","l","l"," ","m","e"," ","m","o","r","e">>  \* 'tell me more'
    , <<"p","h","a","s","e"," ","2">>  \* 'phase 2'
    , <<"P","h","a","s","e"," ","1">>  \* 'Phase 1'
    , <<"s","o"," ","w","h","a","t"," ","a","b","o","u","t"," ","t","h","e">>  \* 'so what about the'
    , <<"a","p","p","r","o","v","a","l","s"," ","a","r","e"," ","p","e","n","d","i","n","g">>  \* 'approvals are pending'
    , <<"w","a","i","t","i","n","g">>  \* 'waiting'
    , <<"n","e","e","d"," ","t","o"," ","a","p","p","r","o","v","e">>  \* 'need to approve'
    , <<"h","o","w"," ","m","a","n","y">>  \* 'how many'
    , <<"s","t","a","t","u","s">>  \* 'status'
    , <<"c","r","e","a","t","e">>  \* 'create'
    , <<"n","e","x","t"," ","s","t","e","p">>  \* 'next step'
    , <<"r","e","q","u","i","r","e","m","e","n","t">>  \* 'requirement'
    , <<"r","i","s","k">>  \* 'risk'
    , <<"w","h","o">>  \* 'who'
    , <<"c","o","m","p","l","e","t","e">>  \* 'complete'
    }

\* the queries made of at most n phrases separated by one space
RECURSIVE QueriesOf(_)
QueriesOf(n) ==
    IF n = 0 THEN {<<>>}
    ELSE LET shorter == QueriesOf(n - 1) IN
         shorter \cup Vocab \cup
         {q \o <<" ">> \o w : q \in shorter \ {<<>>}, w \in Vocab}

\* the queries served end to end
PipelineQueries ==
    { <<"h","o","w"," ","m","a","n","y"," ","p","r","o","j","e","c","t","s"," ","a","r","e"," ","t","h","e","r","e","?">>  \* 'how many projects are there?'
    , <<"w","h","a","t"," ","a","r","e"," ","t","h","e"," ","r","i","s","k","s","?">>  \* 'what are the risks?'
    , <<"y","e","s">>  \* 'yes'
    , <<"p","h","a","s","e"," ","2">>  \* 'phase 2'
    , <<"w","h","o"," ","a","r","e"," ","t","h","e"," ","s","t","a","k","e","h","o","l","d","e","r","s","?">>  \* 'who are the stakeholders?'
    , <<"w","h","a","t"," ","i","s"," ","t","h","e"," ","s","t","a","t","u","s","?">>  \* 'what is the status?'
    , <<"w","h","a","t"," ","s","h","o","u","l","d"," ","i"," ","d","o"," ","n","e","x","t","?">>  \* 'what should i do next?'
    , <<"s","h","o","w"," ","m","e"," ","t","h","e"," ","r","e","q","u","i","r","e","m","e","n","t","s">>  \* 'show me the requirements'
    , <<"a","n","y"," ","a","p","p","r","o","v","a","l","s"," ","p","e","n","d","i","n","g","?">>  \* 'any approvals pending?'
    , <<"h","o","w"," ","d","o"," ","i"," ","c","r","e","a","t","e"," ","a"," ","p","r","o","j","e","c","t","?">>  \* 'how do i create a project?'
    , <<"h","e","l","l","o">>  \* 'hello'
    }

ContextTypes == {"dashboard", "project"}
ProjectIdArgs == {NoneId, 0, 1, 2}
PhaseIdArgs == {NoneId, 1, 3, 9}

Request(q, ct, pid, phid, h) ==
    [query |-> q, context_type |-> ct, project_id |-> pid, phase_id |-> phid,
     conversation_history |-> h]

NoRequest == Request(<<>>, "", NoneId, NoneId, [given |-> FALSE, turns |-> <<>>])

-----------------------------------------------------------------------------
(* Artifact Store: the tables the service reads *)

Phase1Name == <<"R","e","q","u","i","r","e","m","e","n","t","s"," ","&"," ","B","u","s","i","n","e","s","s"," ","A","n","a","l","y","s","i","s">>  \* 'Requirements & Business Analysis'
Phase2Name == <<"P","l","a","n","n","i","n","g"," ","&"," ","P","r","o","d","u","c","t"," ","B","a","c","k","l","o","g">>  \* 'Planning & Product Backlog'
RequirementsCap == <<"R","e","q","u","i","r","e","m","e","n","t","s">>  \* 'Requirements'
SeedQuery == <<"w","h","a","t"," ","i","s"," ","p","l","a","n","n","e","d","?">>  \* 'what is planned?'

\* the rows present before the first request
SeedProjects ==
    (1 :> [id |-> 1, name |-> "Alpha", description |-> "Billing portal", status |-> "active",
           created_at |-> "2024-01-01"]) @@
    (3 :> [id |-> 3, name |-> "Gamma", description |-> "Archive", status |-> "completed",
           created_at |-> "2024-02-01"])

SeedPhases ==
    (1 :> [id |-> 1, project_id |-> 1, phase_number |-> 1, phase_name |-> Phase1Name,
           status |-> "in_progress",
           data |-> [risks |-> <<[risk |-> "Scope creep", severity |-> "High",
                                  mitigation |-> "Freeze scope"]>>,
                     stakeholders |-> <<[role |-> "Product Owner", name |-> "Ann",
                                         status |-> "approved"]>>]]) @@
    (2 :> [id |-> 2, project_id |-> 1, phase_number |-> 2, phase_name |-> Phase2Name,
           status |-> "not_started", data |-> None]) @@
    (3 :> [id |-> 3, project_id |-> 3, phase_number |-> 1, phase_name |-> Phase1Name,
           status |-> "pending_approval",
           data |-> [description |-> "Define what to build"]])

\* the row of project `id`: a seeded row, or one more project
ProjectRow(id) ==
    IF id \in DOMAIN SeedProjects THEN SeedProjects[id]
    ELSE [id |-> id, name |-> "Project", description |-> "",
          status |-> IF id % 2 = 0 THEN "active" ELSE "on_hold",
          created_at |-> "2024-03-01"]

\* the table projects holding n rows
StoreOf(n) == [id \in 1..n |-> ProjectRow(id)]

\* the seeded phases of the projects of a table (Phase.project_id is a foreign key)
PhasesIn(projs) ==
    [i \in {j \in DOMAIN SeedPhases : SeedPhases[j].project_id \in DOMAIN projs} |->
        SeedPhases[i]]

\* the elements of a finite set of integers in increasing order
RECURSIVE Sorted(_)
Sorted(S) ==
    IF S = {} THEN <<>>
    ELSE LET m == CHOOSE x \in S : \A y \in S : x <= y IN <<m>> \o Sorted(S \ {m})

\* len([r for r in rows if r.status == status])
CountStatus(rows, status) == Cardinality({i \in 1..Len(rows) : rows[i].status = status})

\* s[:n]
Take(s, n) == SubSeq(s, 1, IF Len(s) < n THEN Len(s) ELSE n)

\* db.query(models.Project).all()
AllProjects(projs) ==
    LET ids == Sorted(DOMAIN projs) IN [i \in 1..Len(ids) |-> projs[ids[i]]]

\* the phases of a project, ordered by phase number (one phase per number)
PhasesOf(phs, project_id) ==
    LET ids == {i \in DOMAIN phs : phs[i].project_id = project_id}
        RECURSIVE ByNumber(_)
        ByNumber(S) ==
            IF S = {} THEN <<>>
            ELSE LET m == CHOOSE x \in S : \A y \in S : phs[x].phase_number <= phs[y].phase_number
                 IN <<phs[m]>> \o ByNumber(S \ {m})
    IN ByNumber(ids)

\* `p.data or {}`
DataOrEmpty(data) == IF IsNone(data) THEN EmptyDict ELSE data

\* next((p.phase_name for p in phases if p.status == "in_progress"), None)
FirstInProgressName(ps) ==
    LET hits == {i \in 1..Len(ps) : ps[i].status = "in_progress"} IN
    IF hits = {} THEN None
    ELSE [name |-> ps[CHOOSE i \in hits : \A j \in hits : i <= j].phase_name]

\* a total counting the active projects only
TotalProjects_ActiveOnly(all) == CountStatus(all, "active")

\* "total_projects": len(projects)
TotalProjects(all) == Len(all)

\* _get_dashboard_sql_context; db_fails: a query of the session raises
GetDashboardSqlContext(projs, phs, db_fails) ==
    IF db_fails THEN [error |-> "db", total_projects |-> 0, projects |-> <<>>]
    ELSE LET all == AllProjects(projs)
             Entry(project) ==
                 LET ps == PhasesOf(phs, project.id) IN
                 [id |-> project.id, name |-> project.name,
                  description |-> project.description, status |-> project.status,
                  total_phases |-> Len(ps),
                  completed_phases |-> CountStatus(ps, "completed"),
                  current_phase |-> FirstInProgressName(ps)]
         IN [total_projects |-> TotalProjects(all),
             projects |-> [i \in 1..Len(all) |-> Entry(all[i])],
             statistics |->
                 [active_projects |-> CountStatus(all, "active"),
                  completed_projects |-> CountStatus(all, "completed"),
                  pending_approvals |->
                      Cardinality({i \in DOMAIN phs : phs[i].status = "pending_approval"})]]

\* the status of an approved phase
CompletedStatus_Approved == "approved"

\* the status the progress facts count as completed
CompletedStatus == "completed"

\* the try block of _get_project_sql_context
ProjectFacts(projs, phs, project_id, phase_id) ==
    IF project_id \notin DOMAIN projs THEN [error |-> "Project not found"]
    ELSE LET project == projs[project_id]
             ps == PhasesOf(phs, project_id)
             current_phase ==
                 IF Truthy(phase_id) /\ phase_id \in DOMAIN phs THEN phs[phase_id] ELSE None
         IN [project |-> [id |-> project.id, name |-> project.name,
                          description |-> project.description, status |-> project.status,
                          created_at |-> project.created_at],
             phases |-> [i \in 1..Len(ps) |->
                            [id |-> ps[i].id, number |-> ps[i].phase_number,
                             name |-> ps[i].phase_name, status |-> ps[i].status,
                             data |-> DataOrEmpty(ps[i].data)]],
             current_phase |->
                 IF IsNone(current_phase) THEN None
                 ELSE [id |-> current_phase.id, number |-> current_phase.phase_number,
                       name |-> current_phase.phase_name, status |-> current_phase.status,
                       data |-> DataOrEmpty(current_phase.data)],
             progress |->
                 [total_phases |-> Len(ps),
                  completed |-> CountStatus(ps, CompletedStatus),
                  in_progress |-> CountStatus(ps, "in_progress"),
                  pending |-> CountStatus(ps, "pending")]]

\* _get_project_sql_context without its except clause
GetProjectSqlContext_NoExcept(projs, phs, project_id, phase_id, db_fails) ==
    IF db_fails THEN Raise("OperationalError")
    ELSE ProjectFacts(projs, phs, project_id, phase_id)

\* _get_project_sql_context; db_fails: a query of the session raises
GetProjectSqlContext(projs, phs, project_id, phase_id, db_fails) ==
    IF db_fails THEN [error |-> "db"]
    ELSE ProjectFacts(projs, phs, project_id, phase_id)

-----------------------------------------------------------------------------
(* Responses: a text is a sequence of fragments, a literal piece of a       *)
(* template, an interpolated text or an interpolated number.  Long         *)
(* templates are cut to their first lines; emoji are left out.             *)

Lit(s) == [lit |-> s]
Txt(t) == [txt |-> t]
Num(n) == [num |-> n]
\* text[:n], the first n characters of a text
Cut(text, n) == [cut |-> n, of |-> text]

\* len(text) > 0
RECURSIVE NonEmptyText(_)
NonEmptyText(text) ==
    \E i \in 1..Len(text) :
        \/ "num" \in DOMAIN text[i]
        \/ "lit" \in DOMAIN text[i] /\ text[i].lit # ""
        \/ "txt" \in DOMAIN text[i] /\ Len(text[i].txt) > 0
        \/ "cut" \in DOMAIN text[i] /\ text[i].cut > 0 /\ NonEmptyText(text[i].of)

\* the dict a strategy returns
Reply(text, confidence, sources, context_type) ==
    [response |-> text, confidence_score |-> confidence, sources |-> sources,
     context_type |-> context_type]

RequirementsWord == <<"r","e","q","u","i","r","e","m","e","n","t","s">>  \* 'requirements'
CreateWord == <<"c","r","e","a","t","e">>  \* 'create'
NewProjectWord == <<"n","e","w"," ","p","r","o","j","e","c","t">>  \* 'new project'
Phase2Word == <<"p","h","a","s","e"," ","2">>  \* 'phase 2'
PlanningWord == <<"p","l","a","n","n","i","n","g">>  \* 'planning'
BacklogWord == <<"b","a","c","k","l","o","g">>  \* 'backlog'
-----------------------------------------------------------------------------
(* Response Router, dashboard strategies *)

GenerateProjectListResponse(ctx, query) ==
    LET total == Get(ctx, "total_projects", 0)
        projs == Get(ctx, "projects", <<>>)
        query_lower == Lower(query)
        InRequirements(p) ==
            /\ ~IsNone(p.current_phase)
            /\ Len(p.current_phase.name) > 0
            /\ Contains(p.current_phase.name, RequirementsCap)
        req_idx == {i \in 1..Len(projs) : InRequirements(projs[i])}
        req_projects == [k \in 1..Cardinality(req_idx) |-> projs[Sorted(req_idx)[k]]]
        ReqLine(p) == <<Lit("- **"), Lit(p.name), Lit("**: "), Lit(p.description), Lit("\n")>>
        Line(p) ==
            <<Lit(IF p.status = "active" THEN "(green)"
                  ELSE IF p.status = "completed" THEN "(blue)" ELSE "(white)"),
              Lit(" **"), Lit(p.name), Lit("** - "), Num(p.completed_phases), Lit("/"),
              Num(p.total_phases), Lit(" phases completed\n")>>
        shown == Take(projs, 5)
        req_lines[i \in 0..Len(req_projects)] ==
            IF i = 0 THEN <<>> ELSE req_lines[i - 1] \o ReqLine(req_projects[i])
        lines[i \in 0..Len(shown)] ==
            IF i = 0 THEN <<>> ELSE lines[i - 1] \o Line(shown[i])
        text ==
            IF Contains(query_lower, PhaseWord) /\ Contains(query_lower, RequirementsWord)
            THEN <<Lit("There are **"), Num(Len(req_projects)),
                   Lit(" projects** currently in the 'Requirements & Business Analysis' phase:\n\n")>>
                 \o req_lines[Len(req_projects)]
            ELSE <<Lit("You have **"), Num(total),
                   Lit(" total projects** in your SDLC platform:\n\n")>>
                 \o lines[Len(shown)]
                 \o (IF total > 5
                     THEN <<Lit("\n... and "), Num(total - 5), Lit(" more projects.")>>
                     ELSE <<>>)
    IN Reply(text, 95, <<"SQL Database">>, "dashboard")

GenerateProjectStatusResponse(ctx, query) ==
    LET stats == Get(ctx, "statistics", EmptyDict)
        pending == Get(stats, "pending_approvals", 0)
        text ==
            <<Lit("**Project Status Overview**\n\n**Active Projects**: "),
              Num(Get(stats, "active_projects", 0)),
              Lit("\n**Completed Projects**: "), Num(Get(stats, "completed_projects", 0)),
              Lit("\n**Pending Approvals**: "), Num(pending),
              Lit("\n\nYour projects are progressing well! ")>>
            \o (IF pending > 0
                THEN <<Lit("You have "), Num(pending), Lit(" approvals waiting for review.")>>
                ELSE <<>>)
    IN Reply(text, 90, <<"SQL Database">>, "dashboard")

GenerateProjectCreationGuidance ==
    Reply(<<Lit("**Creating a New Project**\n\nTo create a new project, follow these steps:")>>,
          100, <<"SDLC Knowledge Base">>, "dashboard")

GenerateApprovalResponse(ctx, query) ==
    LET stats == Get(ctx, "statistics", EmptyDict)
        pending == Get(stats, "pending_approvals", 0)
        projs == Get(ctx, "projects", <<>>)
        names[i \in 0..Len(projs)] ==
            IF i = 0 THEN <<>>
            ELSE names[i - 1] \o <<Lit("- "), Lit(projs[i].name), Lit("\n")>>
        text ==
            IF pending = 0
            THEN <<Lit("**No Pending Approvals**\n\nGreat news! You don't have any approvals waiting for your review at the moment.")>>
            ELSE <<Lit("**Pending Approvals**\n\nYou have **"), Num(pending),
                   Lit(IF pending # 1 THEN " approvals" ELSE " approval"),
                   Lit("** waiting for your review.\n\n"), Lit("**Pending submissions:**\n")>>
                 \o names[Len(projs)]
                 \o <<Lit("\n**To review and approve:**\n1. Click on **\"Approval Center\"** in the sidebar")>>
    IN Reply(text, 95, <<"SQL Database">>, "dashboard")

\* the content of the last message of role user, lower-cased ("" when there is none)
LastUserQuery(conversation_history) ==
    LET users == {i \in 1..Len(conversation_history) :
                     conversation_history[i].role = "user"} IN
    IF users = {} THEN <<>>
    ELSE Lower(conversation_history[CHOOSE i \in users : \A j \in users : j <= i].content)

\* _handle_follow_up accepting a history of one turn
HandleFollowUp_AnyHistory(query, conversation_history, ctx) ==
    LET query_lower == Lower(query)
        last_user_query == LastUserQuery(conversation_history)
    IN IF /\ Len(conversation_history) >= 1
          /\ Contains(last_user_query, CreateWord) \/ Contains(last_user_query, NewProjectWord)
          /\ \/ Contains(query_lower, Phase2Word)
             \/ Contains(query_lower, PlanningWord)
             \/ Contains(query_lower, BacklogWord)
       THEN Reply(<<Lit("**Phase 2: Planning & Product Backlog**\n\nAfter creating your project, Phase 2 involves:")>>,
                  95, <<"SDLC Knowledge Base", "Context">>, "dashboard")
       ELSE Reply(<<Lit("I'd be happy to help! Could you please provide more details about what you'd like to know?")>>,
                  50, <<"Context">>, "dashboard")

HandleFollowUp(query, conversation_history, ctx) ==
    LET query_lower == Lower(query)
        last_user_query == LastUserQuery(conversation_history)
    IN IF /\ Len(conversation_history) >= 2
          /\ Contains(last_user_query, CreateWord) \/ Contains(last_user_query, NewProjectWord)
          /\ \/ Contains(query_lower, Phase2Word)
             \/ Contains(query_lower, PlanningWord)
             \/ Contains(query_lower, BacklogWord)
       THEN Reply(<<Lit("**Phase 2: Planning & Product Backlog**\n\nAfter creating your project, Phase 2 involves:")>>,
                  95, <<"SDLC Knowledge Base", "Context">>, "dashboard")
       ELSE Reply(<<Lit("I'd be happy to help! Could you please provide more details about what you'd like to know?")>>,
                  50, <<"Context">>, "dashboard")

GenerateDashboardGeneralResponse(query, ctx, vec) ==
    Reply(<<Lit("I'm here to help you manage your SDLC projects! \n\n**I can help you with**:")>>,
          70, <<"General AI">>, "dashboard")

-----------------------------------------------------------------------------
(* Response Router, project strategies *)

\* the first line of guidance[phase_number], or the default of guidance.get
PhaseGuidanceText(phase_number) ==
    CASE phase_number = 1 -> "**Phase 1: Requirements & Business Analysis**\n\n**Next Steps**:"
      [] phase_number = 2 -> "**Phase 2: Planning & Product Backlog**\n\n**Next Steps**:"
      [] phase_number = 3 -> "**Phase 3: Architecture & High-Level Design**\n\n**Next Steps**:"
      [] phase_number = 4 -> "**Phase 4: Detailed Design & Specification**\n\n**Next Steps**:"
      [] phase_number = 5 -> "**Phase 5: Development, Testing & Code Review**\n\n**Next Steps**:"
      [] phase_number = 6 -> "**Phase 6: Deployment, Release & Operations**\n\n**Next Steps**:"
      [] OTHER -> "Phase guidance not available."

\* the guidance strategy answering with confidence 95 also without a phase
GeneratePhaseGuidance_AlwaysConfident(ctx, phase_id) ==
    LET current_phase == Get(ctx, "current_phase", None) IN
    IF IsNone(current_phase) \/ current_phase = EmptyDict
    THEN Reply(<<Lit("I need to know which phase you're in to provide guidance. Could you specify the phase?")>>,
               95, <<>>, "project")
    ELSE Reply(<<Lit(PhaseGuidanceText(current_phase.number))>>,
               95, <<"SDLC Knowledge Base", "Project Data">>, "project")

GeneratePhaseGuidance(ctx, phase_id) ==
    LET current_phase == Get(ctx, "current_phase", None) IN
    IF IsNone(current_phase) \/ current_phase = EmptyDict
    THEN Reply(<<Lit("I need to know which phase you're in to provide guidance. Could you specify the phase?")>>,
               50, <<>>, "project")
    ELSE Reply(<<Lit(PhaseGuidanceText(current_phase.number))>>,
               95, <<"SDLC Knowledge Base", "Project Data">>, "project")

\* every snippet the search returned
ShownSnippets_All(vec) == vec

\* vector_context[:3]
ShownSnippets(vec) == Take(vec, 3)

GenerateRequirementInfo(ctx, vec, query) ==
    LET shown == ShownSnippets(vec)
        items[i \in 0..Len(shown)] ==
            IF i = 0 THEN <<>>
            ELSE items[i - 1] \o <<Num(i), Lit(". "), Cut(shown[i], 200), Lit("...\n\n")>>
        text ==
            IF Len(vec) > 0
            THEN <<Lit("Based on your project requirements:\n\n")>> \o items[Len(shown)]
                 \o <<Lit("\nWould you like more details about any specific requirement?")>>
            ELSE <<Lit("I don't have specific requirement information yet. \n\nTo add requirements:")>>
    IN Reply(text,
             IF Len(vec) > 0 THEN 85 ELSE 70,
             IF Len(vec) > 0 THEN <<"Vector Database", "Project Data">> ELSE <<"SDLC Knowledge">>,
             "project")

\* sql_context.get("current_phase", {}).get("data", {}).get(key, []):
\* the key current_phase is present with the value None when no phase was found,
\* and None has no attribute get
PhaseDataList(ctx, key) ==
    LET current_phase == Get(ctx, "current_phase", EmptyDict) IN
    IF IsNone(current_phase) THEN Raise("AttributeError")
    ELSE [items |-> Get(Get(current_phase, "data", EmptyDict), key, <<>>)]

GenerateRiskAnalysis(ctx, vec) ==
    LET looked == PhaseDataList(ctx, "risks") IN
    IF IsRaise(looked) THEN looked
    ELSE LET risks == looked.items
             shown == Take(risks, 5)
             Item(risk) ==
                 LET severity == Get(risk, "severity", "Medium") IN
                 <<Lit(IF severity = "High" THEN "(red)"
                       ELSE IF severity = "Medium" THEN "(yellow)" ELSE "(green)"),
                   Lit(" **"), Lit(Get(risk, "risk", "Unknown risk")), Lit("**\n"),
                   Lit("   - Severity: "), Lit(severity), Lit("\n"),
                   Lit("   - Mitigation: "), Lit(Get(risk, "mitigation", "TBD")), Lit("\n\n")>>
             items[i \in 0..Len(shown)] ==
                 IF i = 0 THEN <<>> ELSE items[i - 1] \o Item(shown[i])
             text ==
                 IF Len(risks) > 0
                 THEN <<Lit("**Identified Risks**:\n\n")>> \o items[Len(shown)]
                 ELSE <<Lit("No risks have been identified yet.\n\nTo analyze risks:")>>
         IN Reply(text, IF Len(risks) > 0 THEN 90 ELSE 75,
                  <<"Project Data", "Risk Analysis">>, "project")

GenerateStakeholderInfo(ctx) ==
    LET looked == PhaseDataList(ctx, "stakeholders") IN
    IF IsRaise(looked) THEN looked
    ELSE LET stakeholders == looked.items
             Item(sh) ==
                 <<Lit(IF Get(sh, "status", "") = "approved" THEN "(done)" ELSE "(waiting)"),
                   Lit(" **"), Lit(Get(sh, "role", "Unknown")), Lit("**: "),
                   Lit(Get(sh, "name", "Unknown")), Lit("\n")>>
             items[i \in 0..Len(stakeholders)] ==
                 IF i = 0 THEN <<>> ELSE items[i - 1] \o Item(stakeholders[i])
             text ==
                 IF Len(stakeholders) > 0
                 THEN <<Lit("**Project Stakeholders**:\n\n")>> \o items[Len(stakeholders)]
                 ELSE <<Lit("No stakeholders have been added yet.\n\nTo add stakeholders:")>>
         IN Reply(text, IF Len(stakeholders) > 0 THEN 95 ELSE 80,
                  <<"Project Data">>, "project")

\* int((completed / total) * 100) is the floor of the quotient for the phase
\* counts of a project
GenerateProjectProgress(ctx) ==
    LET progress == Get(ctx, "progress", EmptyDict)
        project == Get(ctx, "project", EmptyDict)
        total == Get(progress, "total_phases", 6)
        completed == Get(progress, "completed", 0)
        in_progress == Get(progress, "in_progress", 0)
        percentage == IF total > 0 THEN (completed * 100) \div total ELSE 0
        text ==
            <<Lit("**Project Progress: "), Lit(Get(project, "name", "Unknown")),
              Lit("**\n\n**Overall Progress**: "), Num(percentage), Lit("% ("), Num(completed),
              Lit("/"), Num(total), Lit(" phases completed)\n\n**Phase Status**:\n- Completed: "),
              Num(completed), Lit("\n- In Progress: "), Num(in_progress),
              Lit("\n- Pending: "), Num(Get(progress, "pending", 0)), Lit("\n\n"),
              Lit(IF percentage < 30
                  THEN "You're just getting started! Focus on completing Phase 1 first."
                  ELSE IF percentage < 70 THEN "Good progress! Keep the momentum going."
                  ELSE "Almost there! You're in the final stretch.")>>
    IN Reply(text, 95, <<"Project Data">>, "project")

GenerateProjectGeneralResponse(query, ctx, vec) ==
    LET project_name == Get(Get(ctx, "project", EmptyDict), "name", "this project") IN
    Reply(<<Lit("I'm here to help you with **"), Lit(project_name),
            Lit("**!\n\n**I can help you with**:")>>,
          75, <<"General AI", "Project Context">>, "project")

-----------------------------------------------------------------------------
(* Response Router, dispatch *)

\* node 3 of _handle_dashboard_query
DashboardResponse(query, query_intent, conversation_history, ctx, vec) ==
    IF query_intent = "approval_query" THEN GenerateApprovalResponse(ctx, query)
    ELSE IF query_intent = "project_list" THEN GenerateProjectListResponse(ctx, query)
    ELSE IF query_intent = "project_status" THEN GenerateProjectStatusResponse(ctx, query)
    ELSE IF query_intent = "project_creation" THEN GenerateProjectCreationGuidance
    ELSE IF query_intent = "follow_up" THEN HandleFollowUp(query, conversation_history, ctx)
    ELSE GenerateDashboardGeneralResponse(query, ctx, vec)

\* node 3 of _handle_project_query
ProjectResponse(query, query_intent, phase_id, conversation_history, ctx, vec) ==
    IF query_intent = "phase_guidance" THEN GeneratePhaseGuidance(ctx, phase_id)
    ELSE IF query_intent = "requirement_info" THEN GenerateRequirementInfo(ctx, vec, query)
    ELSE IF query_intent = "risk_analysis" THEN GenerateRiskAnalysis(ctx, vec)
    ELSE IF query_intent = "stakeholder_info" THEN GenerateStakeholderInfo(ctx)
    ELSE IF query_intent = "project_status" THEN GenerateProjectProgress(ctx)
    ELSE GenerateProjectGeneralResponse(query, ctx, vec)

-----------------------------------------------------------------------------
(* Embedding Index: EnhancedVectorStoreService, consumed through            *)
(* search(scope_filter, query_text, limit) and store(scope_filter, text,   *)
(* metadata).  The index is kept in similarity rank order.                 *)

\* store_chat_embedding: one more entry, whatever the index holds
StoreChatEmbedding(idx, project_id, phase_id, chat_data, search_text) ==
    Append(idx, [project_id |-> project_id, phase_id |-> phase_id,
                 content |-> search_text, metadata |-> chat_data])

\* the `limit` best entries, each with its content
Results(entries, limit) ==
    LET best == Take(entries, limit) IN [i \in 1..Len(best) |-> [content |-> best[i].content]]

\* search_dashboard_context: no project filter
SearchDashboardContext(idx, query_text, limit) == Results(idx, limit)

\* search_project_context: the entries of the project, and of the phase when one is given
SearchProjectContext(idx, project_id, query_text, phase_id, limit) ==
    LET InScope(e) ==
            /\ e.project_id = project_id
            /\ phase_id = NoneId \/ e.phase_id = phase_id
    IN Results(SelectSeq(idx, InScope), limit)

\* an index already holding SeedEntries interactions of project 1, phase 1
SeedIndex ==
    [i \in 1..SeedEntries |->
        [project_id |-> 1, phase_id |-> 1,
         content |-> <<Lit("Q: "), Txt(SeedQuery), Lit("\nA: "), Lit("Stored answer "), Num(i)>>,
         metadata |-> [query |-> SeedQuery,
                       response |-> <<Lit("Stored answer "), Num(i)>>,
                       intent |-> "project_general",
                       sources |-> <<"General AI", "Project Context">>]]]

-----------------------------------------------------------------------------
(* The service *)

\* no call has raised
NoFaults == [db |-> FALSE, search |-> FALSE, store |-> FALSE]

Init ==
    /\ vector_store \in {"ok", "none"}
    /\ use_real_ai \in BOOLEAN
    /\ projects = SeedProjects
    /\ phases = SeedPhases
    /\ index \in {<<>>, SeedIndex}
    /\ pc = "idle"
    /\ req = NoRequest
    /\ intent = ""
    /\ sql_context = None
    /\ vector_context = <<>>
    /\ response = None
    /\ http = None
    /\ nreq = 0
    /\ faults = NoFaults
    /\ replies = <<>>
    /\ other = None

\* a caller of the classifier: any query, context and history
InitClassify ==
    /\ vector_store = "ok"
    /\ use_real_ai = TRUE
    /\ projects = SeedProjects
    /\ phases = SeedPhases
    /\ index = <<>>
    /\ pc = "received"
    /\ req \in {Request(q, ct, NoneId, NoneId, h) :
                   q \in QueriesOf(MaxWords), ct \in ContextTypes \cup {"phase"},
                   h \in HistoryArgs}
    /\ intent = ""
    /\ sql_context = None
    /\ vector_context = <<>>
    /\ response = None
    /\ http = None
    /\ nreq = 1
    /\ faults = NoFaults
    /\ replies = <<>>
    /\ other = None

\* a caller of the service without an OpenAI key: a dashboard request over a
\* table of any size, or a project request over the seeded tables
InitRoute ==
    /\ vector_store = "ok"
    /\ use_real_ai = FALSE
    /\ \/ /\ projects \in {StoreOf(n) : n \in 0..MaxProjects}
          /\ req \in {Request(q, "dashboard", NoneId, NoneId, h) :
                         q \in PipelineQueries, h \in HistoryArgs}
       \/ /\ projects = SeedProjects
          /\ req \in {Request(q, "project", pid, phid, h) :
                         q \in PipelineQueries, pid \in ProjectIdArgs,
                         phid \in PhaseIdArgs, h \in HistoryArgs}
    /\ phases = PhasesIn(projects)
    /\ index \in {<<>>, SeedIndex}
    /\ pc = "received"
    /\ intent = ""
    /\ sql_context = None
    /\ vector_context = <<>>
    /\ response = None
    /\ http = None
    /\ nreq = 1
    /\ faults = NoFaults
    /\ replies = <<>>
    /\ other = None

\* the locals of process_chat_query before a request
ResetLocals ==
    /\ intent' = ""
    /\ sql_context' = None
    /\ vector_context' = <<>>
    /\ response' = None
    /\ http' = None
    /\ faults' = NoFaults

\* chat_query receives a request
Receive ==
    /\ pc = "idle"
    /\ nreq = 0
    /\ \E q \in PipelineQueries, ct \in ContextTypes, pid \in ProjectIdArgs,
          phid \in PhaseIdArgs, h \in HistoryArgs :
           req' = Request(q, ct, pid, phid, h)
    /\ pc' = "received"
    /\ nreq' = 1
    /\ UNCHANGED <<other, vector_store, use_real_ai, projects, phases, index, intent, sql_context,
                   vector_context, response, http, faults, replies>>

\* chat_query receives the same request once more
Repeat ==
    /\ pc = "done"
    /\ nreq < MaxRequests
    /\ pc' = "received"
    /\ nreq' = nreq + 1
    /\ ResetLocals
    /\ UNCHANGED <<other, vector_store, use_real_ai, projects, phases, index, req, replies>>

\* the history as process_chat_query uses it
ConversationHistory ==
    IF req.conversation_history.given THEN req.conversation_history.turns ELSE <<>>

\* what the caller says next in a conversation
ContinuationQueries ==
    { <<"y","e","s">>  \* 'yes'
    , <<"p","h","a","s","e"," ","2">>  \* 'phase 2'
    , <<"o","k",","," ","t","h","e"," ","b","a","c","k","l","o","g">>  \* 'ok, the backlog'
    }

\* chat_query receives the next query of the conversation: the history then
\* holds all earlier turns, the last query and its answer included
Continue ==
    /\ pc = "done"
    /\ http.status = 200
    /\ nreq < MaxRequests
    /\ \E q \in ContinuationQueries :
           req' = [req EXCEPT
                      !.query = q,
                      !.conversation_history =
                          [given |-> TRUE,
                           turns |-> ConversationHistory \o
                               <<[role |-> "user", content |-> req.query],
                                 [role |-> "assistant", content |-> response.response]>>]]
    /\ pc' = "received"
    /\ nreq' = nreq + 1
    /\ ResetLocals
    /\ UNCHANGED <<other, vector_store, use_real_ai, projects, phases, index, replies>>

\* process_chat_query, steps "initialize history" and 1
DetectIntent ==
    /\ pc = "received"
    /\ intent' = DetectQueryIntent(req.query, req.context_type, ConversationHistory)
    /\ pc' = "classified"
    /\ UNCHANGED <<other, vector_store, use_real_ai, projects, phases, index, req, sql_context,
                   vector_context, response, http, nreq, faults, replies>>

\* node 1 of the handler: the structured facts
SqlContext ==
    /\ pc = "classified"
    /\ \E db_fails \in BOOLEAN :
           /\ sql_context' =
                  IF req.context_type = "dashboard"
                  THEN GetDashboardSqlContext(projects, phases, db_fails)
                  ELSE GetProjectSqlContext(projects, phases, req.project_id, req.phase_id,
                                            db_fails)
           /\ faults' = [faults EXCEPT !.db = db_fails]
    /\ pc' = "sql_done"
    /\ UNCHANGED <<other, vector_store, use_real_ai, projects, phases, index, req, intent,
                   vector_context, response, http, nreq, replies>>

\* a limit one too large
SearchLimit_PlusOne == 5 + 1

\* the limit the handlers pass to the search
SearchLimit == 5

\* vector_context = [r["content"] for r in vector_results]
Contents(vector_results) == [i \in 1..Len(vector_results) |-> vector_results[i].content]

\* the scope the handler searches under: the dashboard handler calls the
\* search without a project filter, the project handler with the project and
\* phase of the request
SearchScope ==
    IF req.context_type = "dashboard"
    THEN [kind |-> "dashboard", project_id |-> NoneId, phase_id |-> NoneId]
    ELSE [kind |-> "project", project_id |-> req.project_id, phase_id |-> req.phase_id]

\* the search call of the handler under a scope
SearchIn(idx, scope, query_text, limit) ==
    IF scope.kind = "dashboard"
    THEN SearchDashboardContext(idx, query_text, limit)
    ELSE SearchProjectContext(idx, scope.project_id, query_text, scope.phase_id, limit)

\* node 2 of the handler: the semantic snippets; search_fails: the search raises
VectorSearch ==
    /\ pc = "sql_done"
    /\ IF vector_store = "ok"
       THEN \E search_fails \in BOOLEAN :
                /\ vector_context' =
                       IF search_fails THEN <<>>
                       ELSE Contents(SearchIn(index, SearchScope, req.query, SearchLimit))
                /\ faults' = [faults EXCEPT !.search = search_fails]
       ELSE /\ vector_context' = <<>>
            /\ faults' = faults
    /\ pc' = "vec_done"
    /\ UNCHANGED <<other, vector_store, use_real_ai, projects, phases, index, req, intent,
                   sql_context, response, http, nreq, replies>>

\* what chat_query answers when process_chat_query raises
ServerError(exc) == [status |-> 500, detail |-> exc]
\* what chat_query answers when process_chat_query returns
Ok(body) == [status |-> 200, body |-> body]

\* node 3 started once the structured facts are in, without the snippets
GenerateReady_AfterFacts == pc \in {"sql_done", "vec_done"}

\* node 3 follows node 1 and node 2 in the handler
GenerateReady == pc = "vec_done"

\* node 3 of the handler: the strategy of the intent; an exception of the
\* strategy leaves process_chat_query and chat_query answers 500
Generate ==
    /\ GenerateReady
    /\ response' =
           IF req.context_type = "dashboard"
           THEN DashboardResponse(req.query, intent, ConversationHistory, sql_context,
                                  vector_context)
           ELSE ProjectResponse(req.query, intent, req.phase_id, ConversationHistory,
                                sql_context, vector_context)
    /\ IF IsRaise(response')
       THEN /\ pc' = "done"
            /\ http' = ServerError(response'.raised)
            /\ replies' = Append(replies, 500)
       ELSE /\ pc' = "routed"
            /\ http' = http
            /\ replies' = replies
    /\ UNCHANGED <<other, vector_store, use_real_ai, projects, phases, index, req, intent,
                   sql_context, vector_context, nreq, faults>>

\* the condition of step 3 without the real-AI test
Recordable_ProjectOnly == Truthy(req.project_id)

\* the condition of step 3 skipping a query the index already holds
Recordable_Unseen ==
    /\ Truthy(req.project_id)
    /\ use_real_ai
    /\ \A i \in 1..Len(index) : index[i].metadata.query # req.query

\* the scope step 3 stores under, without the phase
StoreScope_ProjectWide ==
    [kind |-> "project", project_id |-> req.project_id, phase_id |-> NoneId]

\* the scope step 3 stores under: the project and phase of the request
StoreScope ==
    [kind |-> "project", project_id |-> req.project_id, phase_id |-> req.phase_id]

\* the condition of step 3
Recordable == Truthy(req.project_id) /\ use_real_ai

\* step 3 of process_chat_query and its return; store_fails: the store raises
Record ==
    /\ pc = "routed"
    /\ IF Recordable
       THEN IF vector_store = "none"
            THEN /\ http' = ServerError("AttributeError")
                 /\ index' = index
                 /\ faults' = faults
            ELSE \E store_fails \in BOOLEAN :
                     /\ faults' = [faults EXCEPT !.store = store_fails]
                     /\ IF store_fails
                        THEN /\ http' = ServerError("StoreError")
                             /\ index' = index
                        ELSE /\ http' = Ok(response)
                             /\ index' =
                                    StoreChatEmbedding(index, StoreScope.project_id, StoreScope.phase_id,
                                        [query |-> req.query, response |-> response.response,
                                         intent |-> intent, sources |-> response.sources],
                                        <<Lit("Q: "), Txt(req.query), Lit("\nA: ")>>
                                            \o response.response)
       ELSE /\ http' = Ok(response)
            /\ index' = index
            /\ faults' = faults
    /\ replies' = Append(replies, http'.status)
    /\ pc' = "done"
    /\ UNCHANGED <<other, vector_store, use_real_ai, projects, phases, req, intent, sql_context,
                   vector_context, response, nreq>>

Next ==
    \/ Receive
    \/ DetectIntent
    \/ SqlContext
    \/ VectorSearch
    \/ Generate
    \/ Record
    \/ Repeat

Spec == Init /\ [][Next]_vars

SpecClassify == InitClassify /\ [][DetectIntent]_vars

\* a conversation with the service
NextRoute ==
    \/ DetectIntent
    \/ SqlContext
    \/ VectorSearch
    \/ Generate
    \/ Record
    \/ Continue

SpecRoute == InitRoute /\ [][NextRoute]_vars

-----------------------------------------------------------------------------
(* Two requests in flight: every call of process_chat_query has its own    *)
(* arguments and locals, the service instance and the stores are shared    *)

\* the frame of the call being served: its arguments, position and locals
Frame ==
    [pc |-> pc, req |-> req, intent |-> intent, sql_context |-> sql_context,
     vector_context |-> vector_context, response |-> response, http |-> http,
     faults |-> faults]

\* the frame of a call that has just been received
NewFrame(r) ==
    [pc |-> "received", req |-> r, intent |-> "", sql_context |-> None,
     vector_context |-> <<>>, response |-> None, http |-> None, faults |-> NoFaults]

\* a call resumed with the response of the call that ran last, as if the
\* response were kept on the service instance
Resumed_SharedResponse(frame) == [frame EXCEPT !.response = response]

\* a call is resumed with the locals it was suspended with
Resumed(frame) == frame

\* the requests that meet
ConcurrentRequests ==
    { Request(<<"s","h","o","w"," ","m","e"," ","t","h","e"," ","r","e","q","u","i","r","e","m","e","n","t","s">>,
              "project", 1, 1, [given |-> FALSE, turns |-> <<>>])
    , Request(<<"w","h","a","t"," ","a","r","e"," ","t","h","e"," ","r","i","s","k","s","?">>,
              "project", 1, NoneId, [given |-> FALSE, turns |-> <<>>])
    , Request(<<"h","o","w"," ","m","a","n","y"," ","p","r","o","j","e","c","t","s"," ","a","r","e"," ","t","h","e","r","e","?">>,
              "dashboard", NoneId, NoneId, [given |-> FALSE, turns |-> <<>>])
    , Request(<<"p","h","a","s","e"," ","2">>,
              "dashboard", 1, 1, [given |-> TRUE, turns |-> <<CreateTurn, AssistantTurn>>])
    }

\* chat_query has received two requests; one is being served
InitConcurrent ==
    /\ vector_store \in {"ok", "none"}
    /\ use_real_ai \in BOOLEAN
    /\ projects = SeedProjects
    /\ phases = SeedPhases
    /\ index \in {<<>>, SeedIndex}
    /\ pc = "received"
    /\ req \in ConcurrentRequests
    /\ intent = ""
    /\ sql_context = None
    /\ vector_context = <<>>
    /\ response = None
    /\ http = None
    /\ nreq = 2
    /\ faults = NoFaults
    /\ replies = <<>>
    /\ other \in {NewFrame(r) : r \in ConcurrentRequests}

\* the call being served is suspended and the other call resumed
Switch ==
    /\ ~IsNone(other)
    /\ other.pc # "done"
    /\ LET frame == Resumed(other) IN
           /\ pc' = frame.pc
           /\ req' = frame.req
           /\ intent' = frame.intent
           /\ sql_context' = frame.sql_context
           /\ vector_context' = frame.vector_context
           /\ response' = frame.response
           /\ http' = frame.http
           /\ faults' = frame.faults
    /\ other' = Frame
    /\ UNCHANGED <<vector_store, use_real_ai, projects, phases, index, nreq, replies>>

NextConcurrent ==
    \/ DetectIntent
    \/ SqlContext
    \/ VectorSearch
    \/ Generate
    \/ Record
    \/ Switch

SpecConcurrent == InitConcurrent /\ [][NextConcurrent]_vars

-----------------------------------------------------------------------------
(* Phases: backend/app/routers/phases.py, over the phases the seeding      *)
(* scripts create from PHASE_CONFIGS                                       *)

\* models.PhaseStatus
PhaseStatuses ==
    {"not_started", "in_progress", "pending_approval", "approved", "rejected", "blocked"}

\* PHASE_CONFIGS[n]["name"]
PhaseNames ==
    << Phase1Name
     , Phase2Name
     , <<"A","r","c","h","i","t","e","c","t","u","r","e"," ","&"," ","H","i","g","h","-","L","e","v","e","l"," ","D","e","s","i","g","n">>
     , <<"D","e","t","a","i","l","e","d"," ","D","e","s","i","g","n"," ","&"," ","S","p","e","c","i","f","i","c","a","t","i","o","n","s">>
     , <<"D","e","v","e","l","o","p","m","e","n","t",","," ","T","e","s","t","i","n","g"," ","&"," ","C","o","d","e"," ","R","e","v","i","e","w">>
     , <<"D","e","p","l","o","y","m","e","n","t",","," ","R","e","l","e","a","s","e"," ","&"," ","O","p","e","r","a","t","i","o","n","s">>
     >>

\* PHASE_CONFIGS[n]["description"]
PhaseDescriptions ==
    <<"Define what to build", "Plan how much and when", "Design the overall system",
      "Create detailed specifications", "Build and test the software",
      "Release to production and monitor">>

\* the phases created for project `project_id` at current phase `current_phase`,
\* numbers 1..n, with ids from first_id on
CreatedPhases(project_id, current_phase, n, first_id) ==
    [id \in first_id..(first_id + n - 1) |->
        LET phase_num == id - first_id + 1
            phase_status ==
                IF phase_num < current_phase THEN "approved"
                ELSE IF phase_num = current_phase THEN "in_progress"
                ELSE "not_started"
        IN [id |-> id, project_id |-> project_id, phase_number |-> phase_num,
            phase_name |-> PhaseNames[phase_num], status |-> phase_status,
            data |-> [description |-> PhaseDescriptions[phase_num]],
            ai_confidence_score |->
                IF phase_status = "not_started" THEN 0
                ELSE IF phase_status = "approved" THEN 85 ELSE 45]]

\* Optional[PhaseStatus] = None of a PhaseUpdate
NoStatus == ""

\* the body of PUT /phases/{phase_id}: every field is optional
PhaseUpdate(status, data, ai_confidence_score) ==
    [status |-> status, data |-> data, ai_confidence_score |-> ai_confidence_score]

\* the bodies the callers send: a status alone (or nothing), an empty dict
\* with the score 0, data with a score, and an approval with both
PhaseUpdates ==
    {PhaseUpdate(st, None, NoneId) : st \in PhaseStatuses \cup {NoStatus}}
        \cup {PhaseUpdate(NoStatus, EmptyDict, 0),
              PhaseUpdate(NoStatus, [notes |-> "reviewed"], 90),
              PhaseUpdate("approved", [notes |-> "reviewed"], 90)}

\* a lookup that makes the row when the table has none
FindPhase_OrCreate(phs, phase_id) ==
    IF phase_id \in DOMAIN phs THEN phs[phase_id]
    ELSE [id |-> phase_id, project_id |-> 1, phase_number |-> 1, phase_name |-> Phase1Name,
          status |-> "not_started", data |-> None, ai_confidence_score |-> 0]

\* db.query(models.Phase).filter(models.Phase.id == phase_id).first()
FindPhase(phs, phase_id) == IF phase_id \in DOMAIN phs THEN phs[phase_id] ELSE None

\* the phase after `phase` in any project
NextPhaseIds_AnyProject(phs, phase) ==
    {i \in DOMAIN phs : phs[i].phase_number = phase.phase_number + 1}

\* the phase after `phase` in its project, whatever its status
NextPhaseIds(phs, phase) ==
    {i \in DOMAIN phs : /\ phs[i].project_id = phase.project_id
                        /\ phs[i].phase_number = phase.phase_number + 1}

\* the table after update_phase has found `phase` and committed
UpdatePhaseRows(phs, phase, phase_update) ==
    LET is_being_approved ==
            phase_update.status = "approved" /\ phase.status # "approved"
        updated ==
            [phase EXCEPT
                !.status = IF phase_update.status # NoStatus THEN phase_update.status ELSE @,
                !.data = IF ~IsNone(phase_update.data) /\ phase_update.data # EmptyDict
                         THEN phase_update.data ELSE @,
                !.ai_confidence_score =
                    IF phase_update.ai_confidence_score # NoneId
                    THEN phase_update.ai_confidence_score ELSE @]
        unlocked ==
            IF is_being_approved
            THEN {i \in NextPhaseIds(phs, phase) : phs[i].status = "not_started"}
            ELSE {}
    IN [i \in DOMAIN phs \cup {phase.id} |->
           IF i = phase.id THEN updated
           ELSE IF i \in unlocked THEN [phs[i] EXCEPT !.status = "in_progress"]
           ELSE phs[i]]

\* HTTPException(status_code=404, detail=...)
NotFound(detail) == [status |-> 404, detail |-> detail]

\* the phase ids the callers name: the eight phases of the table, and an id of no phase
PhaseIdCalls == 1..9

\* project 1 as created, with the six phases of PHASE_CONFIGS, and project 2,
\* created before phases 3 to 6 were configured: its first phase is in
\* progress, or approved with the second phase put back to not_started
InitPhases ==
    /\ vector_store = "ok"
    /\ use_real_ai = FALSE
    /\ projects = StoreOf(2)
    /\ \E st \in {"in_progress", "approved"} :
           phases = CreatedPhases(1, 1, 6, 1)
                        @@ [CreatedPhases(2, 1, 2, 7) EXCEPT ![7].status = st]
    /\ index = <<>>
    /\ pc = "idle"
    /\ req = [phase_id |-> NoneId, phase_update |-> PhaseUpdate(NoStatus, None, NoneId)]
    /\ intent = ""
    /\ sql_context = None
    /\ vector_context = <<>>
    /\ response = None
    /\ http = None
    /\ nreq = 0
    /\ faults = NoFaults
    /\ replies = <<>>
    /\ other = None

\* PUT /phases/{phase_id}
UpdatePhase ==
    /\ pc = "idle"
    /\ nreq < MaxUpdates
    /\ \E phase_id \in PhaseIdCalls, phase_update \in PhaseUpdates :
           LET phase == FindPhase(phases, phase_id) IN
           /\ req' = [phase_id |-> phase_id, phase_update |-> phase_update]
           /\ IF IsNone(phase)
              THEN /\ http' = NotFound("Phase not found")
                   /\ phases' = phases
              ELSE /\ phases' = UpdatePhaseRows(phases, phase, phase_update)
                   /\ http' = Ok(phases'[phase.id])
    /\ nreq' = nreq + 1
    /\ replies' = Append(replies, http'.status)
    /\ UNCHANGED <<other, vector_store, use_real_ai, projects, index, pc, intent, sql_context,
                   vector_context, response, faults>>

SpecPhases == InitPhases /\ [][UpdatePhase]_vars

-----------------------------------------------------------------------------
(* Properties *)

\* the strategy of the request has run
Routed == pc \in {"routed", "done"} /\ ~IsNone(response)

\* the structured facts hold no list under `key` for the current phase:
\* error-marked facts, no current phase, or phase data without the key
NoPhaseData(key) ==
    \/ "error" \in DOMAIN sql_context
    \/ IsNone(sql_context.current_phase)
    \/ key \notin DOMAIN sql_context.current_phase.data
    \/ sql_context.current_phase.data[key] = <<>>

\* the "no data yet" branches of the risk and stakeholder templates
NoRisksReply ==
    Reply(<<Lit("No risks have been identified yet.\n\nTo analyze risks:")>>, 75,
          <<"Project Data", "Risk Analysis">>, "project")
NoStakeholdersReply ==
    Reply(<<Lit("No stakeholders have been added yet.\n\nTo add stakeholders:")>>, 80,
          <<"Project Data">>, "project")

\* C1: whatever the scope, the intent and the assembled context, the routed
\* result has a non-empty response text and a confidence score in 0..100.
C1_RouteAnswers ==
    Routed =>
        /\ ~IsRaise(response)
        /\ NonEmptyText(response.response)
        /\ response.confidence_score \in 0..100

\* C2: no strategy raises: when the structured facts hold no risks (no
\* stakeholders) for the current phase, the risk (stakeholder) strategy
\* returns the "no data yet" branch of its template.
C2_DegradesToNoData ==
    (Routed /\ req.context_type = "project") =>
        /\ (intent = "risk_analysis" /\ NoPhaseData("risks")) => response = NoRisksReply
        /\ (intent = "stakeholder_info" /\ NoPhaseData("stakeholders"))
               => response = NoStakeholdersReply

\* C3: a failing recorder write is not surfaced: once a response has been
\* generated, chat_query answers 200 with that response.
C3_RecorderFailureHidden ==
    (pc = "done" /\ ~IsNone(response) /\ ~IsRaise(response)) => http = Ok(response)

\* the classifier has answered
Classified == pc \notin {"idle", "received"}

\* the approval-related words of dashboard queries
ClaimedApprovalWords ==
    { <<"a","p","p","r","o","v","a","l">>  \* 'approval'
    , <<"p","e","n","d","i","n","g">>  \* 'pending'
    , <<"w","a","i","t","i","n","g">>  \* 'waiting'
    , <<"n","e","e","d"," ","t","o"," ","a","p","p","r","o","v","e">>  \* 'need to approve'
    }

\* a dashboard query holding an approval-related word has been classified
ApprovalAsked ==
    /\ Classified
    /\ req.context_type = "dashboard"
    /\ AnyIn(ClaimedApprovalWords, Lower(req.query))

\* the follow-up rule: a history is present, and the query holds an
\* acknowledgement phrase or has at most 5 tokens and names one of phases 2..6
FollowUpRule ==
    /\ ConversationHistory # <<>>
    /\ \/ \E w \in FollowUpWords : Contains(Lower(req.query), w)
       \/ /\ \E w \in FollowUpPhaseWords : Contains(Lower(req.query), w)
          /\ SplitLen(Lower(req.query)) <= 5

\* C4 as stated: in dashboard scope a query holding an approval-related word
\* is classified approval_query, whatever the history.
C4_ApprovalRegardlessOfHistory == ApprovalAsked => intent = "approval_query"

\* C4 amended: in dashboard scope a query holding an approval-related word is
\* classified approval_query when the history is empty or the follow-up rule
\* does not match, and follow_up otherwise.
C4_ApprovalUnlessFollowUp ==
    ApprovalAsked => intent = (IF FollowUpRule THEN "follow_up" ELSE "approval_query")

\* an approval query asked within a conversation and classified approval_query
C4_Witness ==
    /\ ApprovalAsked
    /\ Len(ConversationHistory) > 0
    /\ intent = "approval_query"

\* C5: with an empty or absent history the classifier never answers follow_up.
C5_NoFollowUpWithoutHistory ==
    (Classified /\ ConversationHistory = <<>>) => intent # "follow_up"

\* an acknowledgement sent without any history, classified otherwise
C5_Witness ==
    /\ Classified
    /\ ~req.conversation_history.given
    /\ AnyIn(FollowUpWords, Lower(req.query))
    /\ intent = "dashboard_general"

\* the intents of each scope
DashboardIntents ==
    {"approval_query", "project_list", "project_status", "project_creation", "follow_up",
     "dashboard_general"}
ProjectIntents ==
    {"phase_guidance", "requirement_info", "risk_analysis", "stakeholder_info",
     "project_status", "project_general", "follow_up"}

\* no rule of the scope matches the query
NoRuleMatches ==
    LET q == Lower(req.query) IN
    /\ ~FollowUpRule
    /\ IF req.context_type = "dashboard"
       THEN /\ ~AnyIn(ApprovalWords \cup ProjectListWords \cup ProjectCreationWords, q)
            /\ ~(AnyIn(DashboardStatusWords, q) /\ ~Contains(q, PhaseWord))
       ELSE ~AnyIn(PhaseGuidanceWords \cup RequirementWords \cup RiskWords
                       \cup StakeholderWords \cup ProjectStatusWords, q)

SqlDone == pc \in {"sql_done", "vec_done", "routed", "done"} /\ ~IsNone(sql_context)

\* the project id of a project-context request names no project
ProjectUnresolved == req.context_type # "dashboard" /\ req.project_id \notin DOMAIN projects

\* a phase id was supplied to a project-context request and names no phase
PhaseUnresolved ==
    /\ req.context_type # "dashboard"
    /\ req.phase_id # NoneId
    /\ req.phase_id \notin DOMAIN phases

\* C7 as stated: the structured-fact retrieval never raises, and its payload
\* carries the error marker when the project id or a supplied phase id does
\* not resolve or when the lookup fails.
C7_ErrorMarkerOnAnyFailure ==
    SqlDone =>
        /\ ~IsRaise(sql_context)
        /\ (ProjectUnresolved \/ PhaseUnresolved \/ faults.db)
               => "error" \in DOMAIN sql_context

\* C7 amended: the structured-fact retrieval never raises; its payload
\* carries the error marker when the project id does not resolve or the
\* lookup fails; when only a supplied phase id does not resolve, the payload
\* carries no error marker and its current_phase is None.
C7_ErrorMarkerOnProjectOrLookupFailure ==
    SqlDone =>
        /\ ~IsRaise(sql_context)
        /\ (ProjectUnresolved \/ faults.db) => "error" \in DOMAIN sql_context
        /\ (PhaseUnresolved /\ ~ProjectUnresolved /\ ~faults.db)
               => /\ "error" \notin DOMAIN sql_context
                  /\ IsNone(sql_context.current_phase)

\* a project found with a phase id that names no phase: facts without marker
C7_Witness ==
    /\ SqlDone
    /\ PhaseUnresolved
    /\ req.project_id \in DOMAIN projects
    /\ "error" \notin DOMAIN sql_context
    /\ IsNone(sql_context.current_phase)

\* C8: the assembler never holds more than 5 semantic snippets.
C8_AtMostFiveSnippets == Len(vector_context) <= 5

\* a search over more than 5 eligible entries that returned 5 snippets
C8_Witness ==
    /\ pc = "vec_done"
    /\ Len(index) > 5
    /\ Len(vector_context) = 5

\* the step that completes a query: process_chat_query returns its response
Completes == pc = "routed" /\ pc' = "done" /\ http'.status = 200

\* index' keeps every entry of index at its place
AppendOnly == Len(index') >= Len(index) /\ SubSeq(index', 1, Len(index)) = index

\* C9 as stated: every completed query appends exactly one stored
\* interaction, and no stored interaction is updated or deleted.
C9_OneInteractionPerQuery ==
    [][AppendOnly /\ (Completes => Len(index') = Len(index) + 1)]_vars

\* C9 amended: a completed query appends exactly one stored interaction when
\* it carries a non-zero project id and real AI is enabled, and none
\* otherwise; no step updates or deletes a stored interaction.
C9_OneInteractionPerRecordableQuery ==
    [][/\ AppendOnly
       /\ Completes => Len(index') = Len(index)
                           + (IF Truthy(req.project_id) /\ use_real_ai THEN 1 ELSE 0)
       /\ ~Completes => index' = index]_vars

\* a completed dashboard query carrying a project id, stored last in the index
C9_Witness ==
    /\ pc = "done"
    /\ http.status = 200
    /\ req.context_type = "dashboard"
    /\ Truthy(req.project_id) /\ use_real_ai
    /\ Len(index) > 0
    /\ index[Len(index)].metadata.query = req.query

\* the stored interactions of the query being served
EntriesOfQuery == {i \in 1..Len(index) : index[i].metadata.query = req.query}

\* C10: recording is not deduplicated: the index holds one entry of the
\* query per completed recordable request, however often it is repeated.
C10_EntryPerRecordCall ==
    (Truthy(req.project_id) /\ use_real_ai) =>
        Cardinality(EntriesOfQuery) = Cardinality({k \in 1..Len(replies) : replies[k] = 200})

\* the same request served twice, leaving two identical entries
C10_Witness ==
    /\ pc = "done"
    /\ replies = <<200, 200>>
    /\ Cardinality(EntriesOfQuery) = 2
    /\ index[Len(index)] = index[Len(index) - 1]

HowManyQuery == <<"h","o","w"," ","m","a","n","y"," ","p","r","o","j","e","c","t","s"," ","a","r","e"," ","t","h","e","r","e","?">>  \* 'how many projects are there?'

\* the text holds "<n> total projects"
HoldsTotal(text, n) ==
    \E i \in 1..(Len(text) - 1) :
        /\ text[i] = Num(n)
        /\ text[i + 1] = Lit(" total projects** in your SDLC platform:\n\n")

\* the scenario of C11: the dashboard is asked "how many projects are there?"
\* without history, and the lookup of the projects has succeeded
HowManyAsked ==
    /\ Routed
    /\ req.context_type = "dashboard"
    /\ req.query = HowManyQuery
    /\ ConversationHistory = <<>>
    /\ ~faults.db

\* C11: on the dashboard, without history, "how many projects are there?"
\* over a table of N projects is classified project_list and answered with
\* a text holding "N total projects", confidence 95 and the sources
\* ["SQL Database"] exactly.
C11_HowManyProjects ==
    HowManyAsked =>
        /\ intent = "project_list"
        /\ HoldsTotal(response.response, Cardinality(DOMAIN projects))
        /\ response.confidence_score = 95
        /\ response.sources = <<"SQL Database">>

\* the question answered over a table of more projects than the answer lists
C11_Witness ==
    /\ HowManyAsked
    /\ Cardinality(DOMAIN projects) > 5
    /\ intent = "project_list"
    /\ HoldsTotal(response.response, Cardinality(DOMAIN projects))

RisksQuery == <<"w","h","a","t"," ","a","r","e"," ","t","h","e"," ","r","i","s","k","s","?">>  \* 'what are the risks?'

\* the scenario of C12: an existing project is asked "what are the risks?"
\* with no phase id, and the lookup of the project has succeeded
RisksAskedWithoutPhase ==
    /\ Routed
    /\ req.context_type = "project"
    /\ req.project_id \in DOMAIN projects
    /\ req.phase_id = NoneId
    /\ req.query = RisksQuery
    /\ ~faults.db

\* C12: in project scope, for an existing project and no phase id, "what are
\* the risks?" is classified risk_analysis and answered with the "no risks
\* identified yet" message, confidence 75.
C12_NoRisksWithoutPhase ==
    RisksAskedWithoutPhase =>
        /\ intent = "risk_analysis"
        /\ ~IsRaise(response)
        /\ response.response =
               <<Lit("No risks have been identified yet.\n\nTo analyze risks:")>>
        /\ response.confidence_score = 75

\* the scenario of C13: the dashboard conversation "how do i create a
\* project?", an answer, "yes", an answer, and now "phase 2"
Phase2AfterYes ==
    LET h == ConversationHistory IN
    /\ Routed
    /\ req.context_type = "dashboard"
    /\ req.query = Phase2Word
    /\ Len(h) = 4
    /\ h[1] = CreateTurn
    /\ h[2].role = "assistant"
    /\ h[3] = [role |-> "user", content |-> <<"y","e","s">>]
    /\ h[4].role = "assistant"

\* C13: on the dashboard, when the conversation began with the user asking
\* how to create a project and went on with "yes", the query "phase 2" (the
\* history holding all earlier turns) is classified follow_up and answered
\* with the Phase-2 guidance template, confidence 95.
C13_Phase2AfterYes ==
    Phase2AfterYes =>
        /\ intent = "follow_up"
        /\ response.response =
               <<Lit("**Phase 2: Planning & Product Backlog**\n\nAfter creating your project, Phase 2 involves:")>>
        /\ response.confidence_score = 95

\* the closed vocabulary of source labels
SourceVocabulary ==
    {"SQL Database", "Vector Database", "SDLC Knowledge Base", "Project Data",
     "General AI", "Context"}

\* C14: whatever the strategy and its input, every element of the returned
\* sources is a label of the closed vocabulary.
C14_SourcesInVocabulary ==
    (Routed /\ ~IsRaise(response)) =>
        \A i \in 1..Len(response.sources) : response.sources[i] \in SourceVocabulary

\* the query matches a keyword rule of its scope
ScopeRuleMatches ==
    LET q == Lower(req.query) IN
    IF req.context_type = "dashboard"
    THEN \/ AnyIn(ApprovalWords \cup ProjectListWords \cup ProjectCreationWords, q)
         \/ AnyIn(DashboardStatusWords, q) /\ ~Contains(q, PhaseWord)
    ELSE AnyIn(PhaseGuidanceWords \cup RequirementWords \cup RiskWords
                   \cup StakeholderWords \cup ProjectStatusWords, q)

\* C15: with a non-empty history, in either scope, a query that satisfies
\* the follow-up rule is classified follow_up, also when it matches a keyword
\* rule of the scope.
C15_FollowUpPrecedes ==
    (Classified /\ FollowUpRule) => intent = "follow_up"

\* a project-scope query within a conversation that names a risk and
\* acknowledges: classified follow_up
C15_Witness ==
    /\ Classified
    /\ req.context_type = "project"
    /\ FollowUpRule
    /\ ScopeRuleMatches
    /\ AnyIn(RiskWords, Lower(req.query))
    /\ intent = "follow_up"

\* the phrase occurs in the text as whole words
HoldsPhrase(text, phrase) ==
    \E i \in 0..(Len(text) - Len(phrase)) :
        /\ \A j \in 1..Len(phrase) : text[i + j] = phrase[j]
        /\ i = 0 \/ text[i] \in Whitespace
        /\ i + Len(phrase) = Len(text) \/ text[i + Len(phrase) + 1] \in Whitespace

\* the query is an affirmative or continuation phrase
Acknowledges == \E w \in FollowUpWords : HoldsPhrase(Lower(req.query), w)

\* the query has at most 5 tokens and names one of the phases 1..6
ShortAndNamesPhase ==
    /\ SplitLen(Lower(req.query)) <= 5
    /\ \E w \in FollowUpPhaseWords \cup {<<"p","h","a","s","e"," ","1">>} :
           Contains(Lower(req.query), w)

\* C16: with a non-empty history the classifier answers follow_up if and
\* only if the query is an affirmative or continuation phrase, or has at most
\* 5 tokens and names a phase number 1..6; an acknowledgement string inside
\* another word does not make a follow-up.
C16_FollowUpIffAcknowledgement ==
    (Classified /\ ConversationHistory # <<>>) =>
        (intent = "follow_up" <=> (Acknowledges \/ ShortAndNamesPhase))

\* the keyword rules of each scope in their fixed order; a rule matches a
\* query that holds one of its words and none of its `unless` words
DashboardRules ==
    << [intent |-> "approval_query", words |-> ApprovalWords, unless |-> {}],
       [intent |-> "project_list", words |-> ProjectListWords, unless |-> {}],
       [intent |-> "project_status", words |-> DashboardStatusWords, unless |-> {PhaseWord}],
       [intent |-> "project_creation", words |-> ProjectCreationWords, unless |-> {}] >>
ProjectRules ==
    << [intent |-> "phase_guidance", words |-> PhaseGuidanceWords, unless |-> {}],
       [intent |-> "requirement_info", words |-> RequirementWords, unless |-> {}],
       [intent |-> "risk_analysis", words |-> RiskWords, unless |-> {}],
       [intent |-> "stakeholder_info", words |-> StakeholderWords, unless |-> {}],
       [intent |-> "project_status", words |-> ProjectStatusWords, unless |-> {}] >>

\* the rules of the scope of the request, and those that match its query
ScopeRules == IF req.context_type = "dashboard" THEN DashboardRules ELSE ProjectRules
MatchingRules ==
    {i \in 1..Len(ScopeRules) :
        /\ AnyIn(ScopeRules[i].words, Lower(req.query))
        /\ ~AnyIn(ScopeRules[i].unless, Lower(req.query))}

\* C17: when no follow-up applies, the intent is that of the earliest
\* matching rule of the scope's fixed order, and the scope's general intent
\* when no rule matches.
C17_EarliestRuleWins ==
    (Classified /\ ~FollowUpRule) =>
        intent =
            IF MatchingRules = {}
            THEN (IF req.context_type = "dashboard" THEN "dashboard_general"
                  ELSE "project_general")
            ELSE ScopeRules[CHOOSE i \in MatchingRules : \A j \in MatchingRules : i <= j].intent

\* a project-scope query that matches the requirement rule and the risk
\* rule: classified requirement_info
C17_Witness ==
    /\ Classified
    /\ ~FollowUpRule
    /\ req.context_type = "project"
    /\ {2, 3} \subseteq MatchingRules
    /\ intent = "requirement_info"

\* the clarification request of the follow-up strategy
ClarificationText ==
    <<Lit("I'd be happy to help! Could you please provide more details about what you'd like to know?")>>

\* a follow-up for which no prior pattern matches: the last user turn did not
\* ask about creating a project, or the query names neither phase 2, planning
\* nor the backlog
NoPriorPattern ==
    LET last_user_query == LastUserQuery(ConversationHistory)
        q == Lower(req.query)
    IN \/ Len(ConversationHistory) < 2
       \/ ~(Contains(last_user_query, CreateWord) \/ Contains(last_user_query, NewProjectWord))
       \/ ~(Contains(q, Phase2Word) \/ Contains(q, PlanningWord) \/ Contains(q, BacklogWord))

\* C18: a follow_up intent for which no prior pattern matches is answered, in
\* dashboard scope and in project scope alike, with the clarification request
\* and confidence 50.
C18_FollowUpClarifies ==
    (Routed /\ intent = "follow_up" /\ NoPriorPattern) =>
        /\ ~IsRaise(response)
        /\ response.response = ClarificationText
        /\ response.confidence_score = 50

\* a retrieval-summarized strategy has answered with snippets at hand
SummarizedWithSnippets ==
    /\ Routed
    /\ req.context_type = "project"
    /\ intent \in {"requirement_info", "risk_analysis"}
    /\ ~IsRaise(response)
    /\ vector_context # <<>>

\* what the strategy of the request answers on the same structured facts
\* when no snippet was found
AnswerWithoutSnippets ==
    ProjectResponse(req.query, intent, req.phase_id, ConversationHistory, sql_context, <<>>)

\* C19: for requirement_info and risk_analysis, on the same structured
\* facts, the confidence answered without snippets is strictly lower than
\* the confidence answered with snippets.
C19_SnippetsRaiseConfidence ==
    SummarizedWithSnippets =>
        AnswerWithoutSnippets.confidence_score < response.confidence_score

\* the strategy of the request is a templated one
Templated ==
    IF req.context_type = "dashboard"
    THEN intent \in {"approval_query", "project_list", "project_status", "project_creation"}
    ELSE intent \in {"phase_guidance", "stakeholder_info", "project_status"}

\* what the strategy of the request answers on empty facts and no snippets
ReferenceAnswer ==
    IF req.context_type = "dashboard"
    THEN DashboardResponse(req.query, intent, ConversationHistory, EmptyDict, <<>>)
    ELSE ProjectResponse(req.query, intent, req.phase_id, ConversationHistory, EmptyDict, <<>>)

\* C20 as stated: each templated strategy answers one confidence, the one
\* it answers on any other facts and snippets.
C20_FixedConfidence ==
    (Routed /\ Templated /\ ~IsRaise(response)) =>
        response.confidence_score = ReferenceAnswer.confidence_score

\* the structured facts hold a current phase; they hold the key with the
\* value None; the current phase lists stakeholders
HasCurrentPhase ==
    "current_phase" \in DOMAIN sql_context /\ ~IsNone(sql_context.current_phase)
CurrentPhaseIsNone ==
    "current_phase" \in DOMAIN sql_context /\ IsNone(sql_context.current_phase)
ListsStakeholders ==
    /\ HasCurrentPhase
    /\ "stakeholders" \in DOMAIN sql_context.current_phase.data
    /\ sql_context.current_phase.data.stakeholders # <<>>

\* the confidence of each template
TemplateConfidence ==
    IF req.context_type = "dashboard"
    THEN CASE intent = "approval_query" -> 95
           [] intent = "project_list" -> 95
           [] intent = "project_status" -> 90
           [] intent = "project_creation" -> 100
    ELSE CASE intent = "project_status" -> 95
           [] intent = "phase_guidance" -> IF HasCurrentPhase THEN 95 ELSE 50
           [] intent = "stakeholder_info" -> IF ListsStakeholders THEN 95 ELSE 80

\* C20 amended: the approval, list, status and creation templates of the
\* dashboard and the progress template of the project answer one constant
\* each (95, 95, 90, 100, 95); the guidance template answers 95 with a
\* current phase and 50 without; the stakeholder template answers 95 when
\* the current phase lists stakeholders and 80 when it lists none, and
\* raises when the facts hold no current phase.
C20_ConfidencePerTemplate ==
    (Routed /\ Templated) =>
        IF req.context_type # "dashboard" /\ intent = "stakeholder_info" /\ CurrentPhaseIsNone
        THEN IsRaise(response)
        ELSE /\ ~IsRaise(response)
             /\ response.confidence_score = TemplateConfidence

\* the stakeholder template answering 80 for a phase that lists nobody
C20_Witness ==
    /\ Routed
    /\ req.context_type = "project"
    /\ intent = "stakeholder_info"
    /\ HasCurrentPhase
    /\ ~ListsStakeholders
    /\ ~IsRaise(response)
    /\ response.confidence_score = 80

-----------------------------------------------------------------------------
(* Failures of the Embedding Index search *)

\* the semantic retrieval of the request found no usable index: the search
\* raised, or the service holds no index handle
SearchUnavailable == faults.search \/ vector_store = "none"

\* C21: when the Embedding Index search raises, or the index handle is
\* absent, the request proceeds with an empty snippet list, the structured
\* facts are still used, and a response is returned.
C21_SearchFailureSwallowed ==
    (pc = "done" /\ SearchUnavailable) =>
        /\ vector_context = <<>>
        /\ ~IsNone(sql_context)
        /\ ~IsNone(response) /\ ~IsRaise(response)
        /\ http = Ok(response)

-----------------------------------------------------------------------------
(* The scope of the recorder write *)

\* the scope an index entry is stored under
ScopeOf(entry) ==
    [kind |-> IF Truthy(entry.project_id) THEN "project" ELSE "dashboard",
     project_id |-> entry.project_id, phase_id |-> entry.phase_id]

\* the request has been answered and its interaction stored
Stored == pc = "done" /\ http.status = 200 /\ Recordable

\* the entry the request has stored
StoredEntry == index[Len(index)]

\* C22 as claimed: the scope under which the interaction is stored equals the
\* scope under which the semantic retrieval was performed.
C22_StoredUnderRetrievalScope == Stored => ScopeOf(StoredEntry) = SearchScope

\* C22: an interaction is stored under the (project_id, phase_id) of its
\* request, which for a project request is the scope of the retrieval; a
\* dashboard request is retrieved without a project filter and still stored
\* under its project; no entry is stored dashboard-wide.
C22_StoredUnderRequestScope ==
    /\ Stored =>
        /\ StoredEntry.project_id = req.project_id
        /\ StoredEntry.phase_id = req.phase_id
        /\ StoredEntry.metadata.query = req.query
        /\ req.context_type = "project" => ScopeOf(StoredEntry) = SearchScope
        /\ req.context_type = "dashboard" =>
               /\ SearchScope.kind = "dashboard"
               /\ ScopeOf(StoredEntry).kind = "project"
    /\ \A i \in 1..Len(index) : ScopeOf(index[i]).kind = "project"

\* a dashboard request with a project and a phase has been stored
C22_Witness ==
    /\ Stored
    /\ req.context_type = "dashboard"
    /\ req.phase_id # NoneId
    /\ Len(index) > SeedEntries

-----------------------------------------------------------------------------
(* The order of the pipeline *)

\* C23: within one request the steps are ordered: the facts are assembled
\* only after the intent has been classified, the response is generated only
\* after both the structured-fact retrieval and the semantic retrieval have
\* completed or failed, and the recorder writes only after the response has
\* been generated.
C23_PipelineOrder ==
    [][ /\ (IsNone(sql_context) /\ ~IsNone(sql_context')) => intent # ""
        /\ (IsNone(response) /\ ~IsNone(response')) =>
               /\ pc = "vec_done"
               /\ ~IsNone(sql_context)
               /\ intent # ""
        /\ index' # index =>
               /\ pc = "routed"
               /\ ~IsNone(response) /\ ~IsRaise(response)
               /\ response' = response ]_vars

\* a request whose search raised has been answered and recorded
C23_Witness == Stored /\ faults.search /\ vector_context = <<>> /\ Len(index) = 1

-----------------------------------------------------------------------------
(* The snippets carried into a response *)

\* the most snippet characters a response carries: three snippets of 200
SnippetBudget == 3 * 200

\* the fragments of a text that are cut from a snippet
SnippetCuts(text) == LET IsCut(f) == "cut" \in DOMAIN f IN SelectSeq(text, IsCut)

\* the characters the cuts take at most
CutChars(cuts) ==
    LET sum[i \in 0..Len(cuts)] == IF i = 0 THEN 0 ELSE sum[i - 1] + cuts[i].cut
    IN sum[Len(cuts)]

\* C25: the snippet text carried into a response is bounded by a fixed
\* character budget and is a prefix of the ranked snippet sequence: the
\* carried snippets are the first ones in rank order, each cut to its first
\* characters, and the ones past the cap are dropped.
C25_SnippetsBoundedPrefix ==
    (Routed /\ ~IsRaise(response)) =>
        LET cuts == SnippetCuts(response.response) IN
        /\ Len(cuts) <= Len(vector_context)
        /\ \A i \in 1..Len(cuts) : cuts[i].of = vector_context[i]
        /\ CutChars(cuts) <= SnippetBudget

\* a requirement answer carrying fewer snippets than the search returned
C25_Witness ==
    /\ Routed /\ ~IsRaise(response)
    /\ intent = "requirement_info"
    /\ Len(vector_context) = SearchLimit
    /\ Len(SnippetCuts(response.response)) = 3

-----------------------------------------------------------------------------
(* The dashboard follow-up strategy *)

\* the dashboard follow-up strategy has answered
FollowUpAnswered ==
    Routed /\ req.context_type = "dashboard" /\ intent = "follow_up" /\ ~IsRaise(response)

\* the Phase-2 guidance of the follow-up strategy
Phase2Guidance ==
    <<Lit("**Phase 2: Planning & Product Backlog**\n\nAfter creating your project, Phase 2 involves:")>>

\* the history has two turns or more, its most recent user turn is about
\* creating a project, and the query names phase 2, planning or the backlog
CreationThenPhase2 ==
    LET h == ConversationHistory
        users == {i \in 1..Len(h) : h[i].role = "user"}
        last == IF users = {} THEN <<>>
                ELSE Lower(h[CHOOSE i \in users : \A j \in users : j <= i].content)
        q == Lower(req.query)
    IN /\ Len(h) >= 2
       /\ \E w \in {CreateWord, NewProjectWord} : Contains(last, w)
       /\ \E w \in {Phase2Word, PlanningWord, BacklogWord} : Contains(q, w)

\* C29: the dashboard follow-up strategy answers with the Phase-2 guidance
\* (confidence 95) exactly when the history has at least two turns, the most
\* recent user turn contains "create" or "new project" and the query contains
\* "phase 2", "planning" or "backlog"; in every other case it answers with the
\* clarification request (confidence 50).
C29_Phase2OrClarification ==
    FollowUpAnswered =>
        IF CreationThenPhase2
        THEN response.response = Phase2Guidance /\ response.confidence_score = 95
        ELSE response.response = ClarificationText /\ response.confidence_score = 50

\* "phase 2" asked after a history of one turn, the user asking how to create
\* a project, is answered with the clarification request
C29_Witness ==
    /\ FollowUpAnswered
    /\ ConversationHistory = <<CreateTurn>>
    /\ Contains(Lower(req.query), Phase2Word)
    /\ response.confidence_score = 50

\* "the backlog" asked after the answer on creating a project
C29_GuidanceReached ==
    /\ FollowUpAnswered
    /\ Contains(Lower(req.query), BacklogWord)
    /\ response.response = Phase2Guidance

-----------------------------------------------------------------------------
(* update_phase *)

\* the rows are those of PhaseStatus values, one phase per project and number
PhasesTypeOK ==
    /\ \A i \in DOMAIN phases : phases[i].id = i /\ phases[i].status \in PhaseStatuses
    /\ \A i, j \in DOMAIN phases :
           (phases[i].project_id = phases[j].project_id
               /\ phases[i].phase_number = phases[j].phase_number) => i = j

\* phase j follows phase i in its project
Successor(i, j) ==
    /\ phases[j].project_id = phases[i].project_id
    /\ phases[j].phase_number = phases[i].phase_number + 1

\* C26: update_phase unlocks exactly the successor: when the status of the
\* target changes from a non-approved value to approved, the phase of the same
\* project with phase_number + 1 becomes in_progress if and only if it was
\* not_started; in every other call, re-approving an approved phase included,
\* no phase other than the target changes.
C26_UnlocksExactlySuccessor ==
    [][ req'.phase_id \in DOMAIN phases =>
            LET target == req'.phase_id
                approving == /\ req'.phase_update.status = "approved"
                             /\ phases[target].status # "approved"
            IN /\ DOMAIN phases' = DOMAIN phases
               /\ \A i \in DOMAIN phases \ {target} :
                      IF approving /\ Successor(target, i) /\ phases[i].status = "not_started"
                      THEN phases'[i] = [phases[i] EXCEPT !.status = "in_progress"]
                      ELSE phases'[i] = phases[i] ]_vars

\* phase 1 of project 1 has just been approved and phase 2 unlocked, while
\* phase 2 of project 2 stays not_started
C26_Witness ==
    /\ req.phase_id = 1
    /\ req.phase_update.status = "approved"
    /\ http.status = 200
    /\ phases[1].status = "approved"
    /\ phases[2].status = "in_progress"
    /\ phases[8].status = "not_started"

\* an approved phase has been approved again, its successor being not_started
C26_Reapproved ==
    /\ nreq = 1
    /\ req.phase_id = 7
    /\ req.phase_update.status = "approved"
    /\ http.status = 200
    /\ phases[7].status = "approved"
    /\ phases[8].status = "not_started"

\* C27: phase gating: in every state reached by update_phase calls from a
\* freshly created project, whenever phase n+1 is in a status other than
\* not_started, phase n is approved.
C27_PhaseGating ==
    \A i, j \in DOMAIN phases :
        (Successor(i, j) /\ phases[j].status # "not_started") => phases[i].status = "approved"

\* the progress facts of a project and the percentage the progress response shows
ProgressOf(project_id) ==
    LET facts == GetProjectSqlContext(projects, phases, project_id, NoneId, FALSE)
    IN [facts |-> facts.progress, percentage |-> GenerateProjectProgress(facts).response[4]]

\* C28: the phase statuses being PhaseStatus values, the progress facts of
\* every project have completed = 0 and pending = 0, and the progress response
\* shows 0%, however many phases are approved; completed + in_progress +
\* pending is at most total_phases and the percentage is within 0..100.
C28_ProgressCountsNothing ==
    \A project_id \in DOMAIN projects :
        LET p == ProgressOf(project_id) IN
        /\ p.facts.completed = 0
        /\ p.facts.pending = 0
        /\ p.percentage = Num(0)
        /\ p.facts.completed + p.facts.in_progress + p.facts.pending <= p.facts.total_phases
        /\ p.percentage.num \in 0..100

\* two phases of project 1 are approved, one is in progress, and its progress
\* facts count none completed
C28_Witness ==
    /\ Cardinality({i \in DOMAIN phases :
                      phases[i].project_id = 1 /\ phases[i].status = "approved"}) = 2
    /\ ProgressOf(1).facts.in_progress = 1
    /\ ProgressOf(1).facts.total_phases = 6
    /\ ProgressOf(1).facts.completed = 0

\* C30: update_phase on a phase id that does not exist answers 404 "Phase not
\* found" and leaves every phase record (status, data, ai_confidence_score)
\* unchanged.
C30_UnknownPhaseNotFound ==
    [][ req'.phase_id \notin DOMAIN phases =>
            /\ http' = NotFound("Phase not found")
            /\ phases' = phases ]_vars

\* an update of phase 9, which does not exist, after a phase was approved
C30_Witness ==
    /\ req.phase_id = 9
    /\ req.phase_update.status = "approved"
    /\ http.status = 404
    /\ phases[1].status = "approved"
    /\ phases[1].ai_confidence_score = 90

-----------------------------------------------------------------------------
(* Concurrent requests *)

\* both requests have been answered
BothDone == ~IsNone(other) /\ pc = "done" /\ other.pc = "done"

\* what chat_query answers to the request of frame f served alone, the index
\* holding its first k entries, with the failures f met
AnswerAlone(f, k) ==
    LET r == f.req
        history == IF r.conversation_history.given THEN r.conversation_history.turns ELSE <<>>
        query_intent == DetectQueryIntent(r.query, r.context_type, history)
        facts ==
            IF r.context_type = "dashboard"
            THEN GetDashboardSqlContext(projects, phases, f.faults.db)
            ELSE GetProjectSqlContext(projects, phases, r.project_id, r.phase_id, f.faults.db)
        scope ==
            IF r.context_type = "dashboard"
            THEN [kind |-> "dashboard", project_id |-> NoneId, phase_id |-> NoneId]
            ELSE [kind |-> "project", project_id |-> r.project_id, phase_id |-> r.phase_id]
        snippets ==
            IF vector_store = "none" \/ f.faults.search THEN <<>>
            ELSE Contents(SearchIn(SubSeq(index, 1, k), scope, r.query, SearchLimit))
        result ==
            IF r.context_type = "dashboard"
            THEN DashboardResponse(r.query, query_intent, history, facts, snippets)
            ELSE ProjectResponse(r.query, query_intent, r.phase_id, history, facts, snippets)
    IN [intent |-> query_intent,
        http |-> IF IsRaise(result) THEN ServerError(result.raised)
                 ELSE IF Truthy(r.project_id) /\ use_real_ai
                 THEN IF vector_store = "none" THEN ServerError("AttributeError")
                      ELSE IF f.faults.store THEN ServerError("StoreError")
                      ELSE Ok(result)
                 ELSE Ok(result)]

\* an answered request has the intent and the answer it would have alone,
\* against the index as it was at some moment of the run
Isolated(f) ==
    f.pc = "done" =>
        \E k \in 0..Len(index) :
            /\ f.intent = AnswerAlone(f, k).intent
            /\ f.http = AnswerAlone(f, k).http

\* the entries stored since the requests were received
NewEntries ==
    LET seeded == IF Len(index) >= SeedEntries /\ index[1] = SeedIndex[1]
                  THEN SeedEntries ELSE 0
    IN SubSeq(index, seeded + 1, Len(index))

\* the interaction of frame f is among the stored entries
RecordedOf(f) ==
    /\ f.http.status = 200
    /\ \E i \in 1..Len(NewEntries) :
           /\ NewEntries[i].metadata.query = f.req.query
           /\ NewEntries[i].metadata.response = f.http.body.response
           /\ NewEntries[i].project_id = f.req.project_id
           /\ NewEntries[i].phase_id = f.req.phase_id

\* step 3 stores the interaction of frame f
RecordableOf(f) == f.http.status = 200 /\ Truthy(f.req.project_id) /\ use_real_ai

\* C24 as claimed: under any interleaving of two requests, each request's
\* intent and response equal what the request would produce alone against the
\* same store contents, and both interactions end up recorded.
C24_IsolatedAndBothRecorded ==
    /\ Isolated(Frame)
    /\ ~IsNone(other) => Isolated(other)
    /\ BothDone => RecordedOf(Frame) /\ RecordedOf(other)

\* C24: under any interleaving of two requests, each request's intent and
\* answer equal what the request would produce alone against the same store
\* contents, and exactly the requests that were answered with a response,
\* carry a project id and run with real AI end up recorded, in either order.
C24_IsolatedAndRecordedOnce ==
    /\ Isolated(Frame)
    /\ ~IsNone(other) => Isolated(other)
    /\ BothDone =>
           /\ RecordableOf(Frame) => RecordedOf(Frame)
           /\ RecordableOf(other) => RecordedOf(other)
           /\ Len(NewEntries) = Cardinality({i \in {1, 2} :
                                     RecordableOf(IF i = 1 THEN Frame ELSE other)})

\* both requests are recorded, and the one answered last has found the
\* interaction of the other among its snippets
C24_Witness ==
    /\ BothDone
    /\ Len(index) = 2
    /\ RecordedOf(Frame) /\ RecordedOf(other)
    /\ Len(vector_context) = 1
    /\ other.vector_context = <<>>
    /\ req.query # other.req.query

=============================================================================
